---- MODULE Spec2Model ----
(***************************************************************************)
(* Model of vs/editor/common/viewLayout/viewLineRenderer.ts: renderLine    *)
(* and renderLineActual, as a state machine whose steps are the entry      *)
(* checks of renderLine, the head of the loop over the line parts and one  *)
(* iteration of each of the two character loops.                           *)
(*                                                                         *)
(* JavaScript indices are 0-based; sequences here are 1-based, so          *)
(* lineText.charCodeAt(i) is lineText[i + 1] and actualLineParts[i] is     *)
(* parts[i + 1].                                                           *)
(***************************************************************************)
EXTENDS Integers, Sequences, FiniteSets, TLC

\* the renderer: the request and the locals of the call
VARIABLES input, s

\* the marker navigation of gotoError.ts: the cursor of the editor, the
\* markers the marker service holds for the resource of the editor, the last
\* MarkerModel and MarkerNavigationWidget made, the MarkerController, and the
\* position of the running handler
VARIABLES position, serviceMarkers, model, zone, controller, nav

rendererVars == <<input, s>>
markerVars == <<position, serviceMarkers, model, zone, controller, nav>>
vars == <<input, s, position, serviceMarkers, model, zone, controller, nav>>

(***************************************************************************)
(* Bounds of the model.                                                    *)
(***************************************************************************)
MaxLen == 3
MaxTabSize == 3
MaxParts == 2
MaxLine == 3
MaxMarkers == 3

(***************************************************************************)
(* CharCode values read by the renderer.                                   *)
(***************************************************************************)
Null == 0
StartOfHeading == 1
Tab == 9
CarriageReturn == 13
Space == 32
Ampersand == 38
LessThan == 60
GreaterThan == 62
LetterA == 65
LetterB == 66
HardSpace == 160
LINE_SEPARATOR_2028 == 8232
UTF8_BOM == 65279

_controlCharacterSequenceConversionStart == 9216

(***************************************************************************)
(* Markup.  The output string is kept as the sequence of the pieces the    *)
(* code appends to it.  Every piece is a record of the same shape: kind is *)
(* the literal text (or the tag template), type the part type spliced into *)
(* a tag, width the number spliced into a style attribute, code the char   *)
(* code of a character copied from the line or made by fromCharCode.       *)
(***************************************************************************)
Lit(str) == [kind |-> str, type |-> <<>>, width |-> 0, code |-> 0]
Chr(c) == [kind |-> "char", type |-> <<>>, width |-> 0, code |-> c]
OpenTag(type) == [kind |-> "<span class=token>", type |-> type, width |-> 0, code |-> 0]
OpenTagWidth(type, w) == [kind |-> "<span class=token style=width>", type |-> type, width |-> w, code |-> 0]

OuterOpen == Lit("<span>")
CloseTag == Lit("</span>")
Nbsp == Lit("&nbsp;")
Rarr == Lit("&rarr;")
Middot == Lit("&middot;")
Hellip == Lit("&hellip;")

Min(a, b) == IF a < b THEN a ELSE b
Max(a, b) == IF a > b THEN a ELSE b

\* n copies of the piece x
Repeat(x, n) == [i \in 1..n |-> x]

\* arr[i] = v on a JavaScript array (0-based i): overwrite, append, or
\* grow with undefined (-1) holes
Undefined == -1
ArraySet(arr, i, v) ==
    IF i < Len(arr) THEN [arr EXCEPT ![i + 1] = v]
    ELSE [k \in 1..(i + 1) |-> IF k <= Len(arr) THEN arr[k] ELSE IF k = i + 1 THEN v ELSE Undefined]

(***************************************************************************)
(* Helpers of the renderer.                                                *)
(***************************************************************************)
\* type.indexOf('whitespace') >= 0, a part type being the sequence of its
\* class names
isWhitespace(type) == \E k \in 1..Len(type) : type[k] = "whitespace"

\* every ASCII character taken for a control character
isControlCharacter_ascii(characterCode) == characterCode < 128

isControlCharacter(characterCode) == characterCode < 32

controlCharacterToPrintable(characterCode) ==
    Chr(_controlCharacterSequenceConversionStart + characterCode)

\* the run of a tab computed from the raw character index
insertSpacesCount_rawIndex(tabSize, charIndex, tabsCharDelta) ==
    tabSize - (charIndex % tabSize)

\* tabSize - (charIndex + tabsCharDelta) % tabSize
insertSpacesCount(tabSize, charIndex, tabsCharDelta) ==
    tabSize - ((charIndex + tabsCharDelta) % tabSize)

\* the truncation column taken as a 0-based index
charBreakIndex_columnAsIndex(in) ==
    IF in.stopRenderingLineAfter = -1 THEN Len(in.lineContent)
    ELSE in.stopRenderingLineAfter

\* input.stopRenderingLineAfter === -1 ? lineTextLength : input.stopRenderingLineAfter - 1
charBreakIndex(in) ==
    IF in.stopRenderingLineAfter = -1 THEN Len(in.lineContent)
    ELSE in.stopRenderingLineAfter - 1

charCodeAt(lineText, charIndex) == lineText[charIndex + 1]

\* the part of the current iteration of the outer loop
part(in, st) == in.parts[st.partIndex + 1]

\* whitespace rendered in mode 'all' only
parsRendersWhitespace_onlyAll(in, p) == in.renderWhitespace = "all" /\ isWhitespace(p.type)

parsRendersWhitespace(in, p) == in.renderWhitespace # "none" /\ isWhitespace(p.type)

\* toCharIndex of the part at partIndex
toCharIndex(in, partIndex) ==
    IF partIndex + 1 < Len(in.parts)
    THEN Min(Len(in.lineContent), in.parts[partIndex + 2].startIndex)
    ELSE Len(in.lineContent)

\* the state before renderLine is called
Idle ==
    [pc |-> "call", charIndex |-> 0, partIndex |-> 0, out |-> <<>>,
     charOffsetInPartArr |-> <<>>, charOffsetInPart |-> 0, tabsCharDelta |-> 0,
     partContent |-> <<>>, partContentCnt |-> 0, lastRenderedPartIndex |-> -1]

\* renderLine without the check of the parts
renderLine_noPartsCheck(in, st) ==
    IF Len(in.lineContent) = 0
    THEN [st EXCEPT !.pc = "return_empty",
                    !.charOffsetInPartArr = <<>>,
                    !.lastRenderedPartIndex = 0,
                    !.out = <<OuterOpen, Lit("<span>"), Nbsp, CloseTag, CloseTag>>]
    ELSE [st EXCEPT !.pc = "part",
                    !.charIndex = 0,
                    !.out = <<OuterOpen>>,
                    !.charOffsetInPartArr = <<>>,
                    !.charOffsetInPart = 0,
                    !.tabsCharDelta = 0,
                    !.partIndex = 0]

\* renderLine checking the parts before the length of the line
renderLine_partsCheckFirst(in, st) ==
    IF Len(in.parts) = 0
    THEN [st EXCEPT !.pc = "throw"]
    ELSE IF Len(in.lineContent) = 0
    THEN [st EXCEPT !.pc = "return_empty",
                    !.charOffsetInPartArr = <<>>,
                    !.lastRenderedPartIndex = 0,
                    !.out = <<OuterOpen, Lit("<span>"), Nbsp, CloseTag, CloseTag>>]
    ELSE [st EXCEPT !.pc = "part",
                    !.charIndex = 0,
                    !.out = <<OuterOpen>>,
                    !.charOffsetInPartArr = <<>>,
                    !.charOffsetInPart = 0,
                    !.tabsCharDelta = 0,
                    !.partIndex = 0]

(***************************************************************************)
(* renderLine: the empty-line result, the precondition failure, or the     *)
(* first statements of renderLineActual.                                   *)
(***************************************************************************)
renderLine(in, st) ==
    IF Len(in.lineContent) = 0
    THEN [st EXCEPT !.pc = "return_empty",
                    !.charOffsetInPartArr = <<>>,
                    !.lastRenderedPartIndex = 0,
                    !.out = <<OuterOpen, Lit("<span>"), Nbsp, CloseTag, CloseTag>>]
    ELSE IF Len(in.parts) = 0
    THEN [st EXCEPT !.pc = "throw"]
    ELSE [st EXCEPT !.pc = "part",
                    !.charIndex = 0,
                    !.out = <<OuterOpen>>,
                    !.charOffsetInPartArr = <<>>,
                    !.charOffsetInPart = 0,
                    !.tabsCharDelta = 0,
                    !.partIndex = 0]

(***************************************************************************)
(* Head of the loop over the parts: lines 108-123 and 166-168, and, when   *)
(* the loop is over, lines 248-258.                                        *)
(***************************************************************************)
\* partLoop returning the loop variable, which is one past the last part
\* when the loop is over
partLoop_returnsLoopVariable(in, st) ==
    IF st.partIndex < Len(in.parts)
    THEN IF parsRendersWhitespace(in, part(in, st))
         THEN [st EXCEPT !.pc = "whitespace",
                         !.charOffsetInPart = 0,
                         !.partContentCnt = 0,
                         !.partContent = <<>>]
         ELSE [st EXCEPT !.pc = "plain",
                         !.charOffsetInPart = 0,
                         !.out = Append(@, OpenTag(part(in, st).type))]
    ELSE [st EXCEPT !.pc = "return",
                    !.out = Append(@, CloseTag),
                    !.charOffsetInPartArr = Append(@, st.charOffsetInPart),
                    !.lastRenderedPartIndex = st.partIndex]

\* partLoop without charOffsetInPart = 0
partLoop_noOffsetReset(in, st) ==
    IF st.partIndex < Len(in.parts)
    THEN IF parsRendersWhitespace(in, part(in, st))
         THEN [st EXCEPT !.pc = "whitespace",
                         !.partContentCnt = 0,
                         !.partContent = <<>>]
         ELSE [st EXCEPT !.pc = "plain",
                         !.out = Append(@, OpenTag(part(in, st).type))]
    ELSE [st EXCEPT !.pc = "return",
                    !.out = Append(@, CloseTag),
                    !.charOffsetInPartArr = Append(@, st.charOffsetInPart),
                    !.lastRenderedPartIndex = Len(in.parts) - 1]

\* partLoop without the trailing entry of the offset table
partLoop_noTrailingEntry(in, st) ==
    IF st.partIndex < Len(in.parts)
    THEN IF parsRendersWhitespace(in, part(in, st))
         THEN [st EXCEPT !.pc = "whitespace",
                         !.charOffsetInPart = 0,
                         !.partContentCnt = 0,
                         !.partContent = <<>>]
         ELSE [st EXCEPT !.pc = "plain",
                         !.charOffsetInPart = 0,
                         !.out = Append(@, OpenTag(part(in, st).type))]
    ELSE [st EXCEPT !.pc = "return",
                    !.out = Append(@, CloseTag),
                    !.lastRenderedPartIndex = Len(in.parts) - 1]

partLoop(in, st) ==
    IF st.partIndex < Len(in.parts)
    THEN IF parsRendersWhitespace(in, part(in, st))
         THEN [st EXCEPT !.pc = "whitespace",
                         !.charOffsetInPart = 0,
                         !.partContentCnt = 0,
                         !.partContent = <<>>]
         ELSE [st EXCEPT !.pc = "plain",
                         !.charOffsetInPart = 0,
                         !.out = Append(@, OpenTag(part(in, st).type))]
    ELSE [st EXCEPT !.pc = "return",
                    !.out = Append(@, CloseTag),
                    !.charOffsetInPartArr = Append(@, st.charOffsetInPart),
                    !.lastRenderedPartIndex = Len(in.parts) - 1]

(***************************************************************************)
(* One iteration of the character loop of a whitespace part (lines         *)
(* 124-161), or the end of that loop (lines 162-164 and partIndex++).      *)
(***************************************************************************)
\* the arrow of a tab not counted in its run
whitespaceGlyphs_arrowNotCounted(charCode, count) ==
    IF charCode = Tab
    THEN (IF count > 0 THEN <<Rarr>> ELSE <<>>) \o Repeat(Nbsp, Max(count, 0))
    ELSE <<Middot>>

whitespaceGlyphs(charCode, count) ==
    IF charCode = Tab
    THEN (IF count > 0 THEN <<Rarr>> ELSE <<>>) \o Repeat(Nbsp, Max(count - 1, 0))
    ELSE <<Middot>>

whitespaceLoop(in, st) ==
    IF st.charIndex < toCharIndex(in, st.partIndex)
    THEN LET charCode == charCodeAt(in.lineContent, st.charIndex)
             count == insertSpacesCount(in.tabSize, st.charIndex, st.tabsCharDelta)
             extra == IF charCode = Tab THEN count - 1 ELSE 0
             glyphs == whitespaceGlyphs(charCode, count)
             content == st.partContent \o glyphs
             cnt == st.partContentCnt + Len(glyphs)
             offset == st.charOffsetInPart + extra + 1
         IN  IF st.charIndex >= charBreakIndex(in)
             THEN [st EXCEPT !.pc = "return_truncated",
                             !.tabsCharDelta = @ + extra,
                             !.charOffsetInPart = offset,
                             !.partContent = content,
                             !.partContentCnt = cnt,
                             !.out = (@ \o <<OpenTagWidth(part(in, st).type, in.spaceWidth * cnt)>>
                                        \o content) \o <<Hellip, CloseTag, CloseTag>>,
                             !.charOffsetInPartArr =
                                 ArraySet(ArraySet(@, st.charIndex, st.charOffsetInPart),
                                          st.charIndex, offset),
                             !.lastRenderedPartIndex = st.partIndex]
             ELSE [st EXCEPT !.tabsCharDelta = @ + extra,
                             !.charOffsetInPart = offset,
                             !.partContent = content,
                             !.partContentCnt = cnt,
                             !.charOffsetInPartArr = ArraySet(@, st.charIndex, st.charOffsetInPart),
                             !.charIndex = @ + 1]
    ELSE [st EXCEPT !.pc = "part",
                    !.out = (@ \o <<OpenTagWidth(part(in, st).type, in.spaceWidth * st.partContentCnt)>>
                               \o st.partContent) \o <<CloseTag>>,
                    !.partIndex = @ + 1]

(***************************************************************************)
(* One iteration of the character loop of a plain part (lines 170-242),    *)
(* or the end of that loop (line 244 and partIndex++).                     *)
(***************************************************************************)
\* plainGlyphs copying the ampersand as it is
plainGlyphs_rawAmpersand(in, charCode, count) ==
    CASE charCode = Tab -> Repeat(Nbsp, Max(count, 0))
      [] charCode = Space -> <<Nbsp>>
      [] charCode = LessThan -> <<Lit("&lt;")>>
      [] charCode = GreaterThan -> <<Lit("&gt;")>>
      [] charCode = Null -> <<Lit("&#00;")>>
      [] charCode \in {UTF8_BOM, LINE_SEPARATOR_2028} -> <<Lit("\\ufffd")>>
      [] charCode = HardSpace ->
            IF in.renderHardSpace THEN <<Middot>> ELSE <<Chr(charCode)>>
      [] charCode = CarriageReturn -> <<Lit("&#8203")>>
      [] OTHER ->
            IF in.renderControlCharacters /\ isControlCharacter(charCode)
            THEN <<controlCharacterToPrintable(charCode)>>
            ELSE <<Chr(charCode)>>

plainGlyphs(in, charCode, count) ==
    CASE charCode = Tab -> Repeat(Nbsp, Max(count, 0))
      [] charCode = Space -> <<Nbsp>>
      [] charCode = LessThan -> <<Lit("&lt;")>>
      [] charCode = GreaterThan -> <<Lit("&gt;")>>
      [] charCode = Ampersand -> <<Lit("&amp;")>>
      [] charCode = Null -> <<Lit("&#00;")>>
      [] charCode \in {UTF8_BOM, LINE_SEPARATOR_2028} -> <<Lit("\\ufffd")>>
      [] charCode = HardSpace ->
            IF in.renderHardSpace THEN <<Middot>> ELSE <<Chr(charCode)>>
      [] charCode = CarriageReturn -> <<Lit("&#8203")>>
      [] OTHER ->
            IF in.renderControlCharacters /\ isControlCharacter(charCode)
            THEN <<controlCharacterToPrintable(charCode)>>
            ELSE <<Chr(charCode)>>

\* plainLoop without charOffsetInPart += insertSpacesCount - 1
plainLoop_noTabOffset(in, st) ==
    IF st.charIndex < toCharIndex(in, st.partIndex)
    THEN LET charCode == charCodeAt(in.lineContent, st.charIndex)
             count == insertSpacesCount(in.tabSize, st.charIndex, st.tabsCharDelta)
             extra == IF charCode = Tab THEN count - 1 ELSE 0
             offset == st.charOffsetInPart + 1
             glyphs == plainGlyphs(in, charCode, count)
         IN  IF st.charIndex >= charBreakIndex(in)
             THEN [st EXCEPT !.pc = "return_truncated",
                             !.tabsCharDelta = @ + extra,
                             !.charOffsetInPart = offset,
                             !.out = (@ \o glyphs) \o <<Hellip, CloseTag, CloseTag>>,
                             !.charOffsetInPartArr =
                                 ArraySet(ArraySet(@, st.charIndex, st.charOffsetInPart),
                                          st.charIndex, offset),
                             !.lastRenderedPartIndex = st.partIndex]
             ELSE [st EXCEPT !.tabsCharDelta = @ + extra,
                             !.charOffsetInPart = offset,
                             !.out = @ \o glyphs,
                             !.charOffsetInPartArr = ArraySet(@, st.charIndex, st.charOffsetInPart),
                             !.charIndex = @ + 1]
    ELSE [st EXCEPT !.pc = "part",
                    !.out = Append(@, CloseTag),
                    !.partIndex = @ + 1]

\* plainLoop returning the index of the last part when it truncates
plainLoop_truncationReturnsLastPart(in, st) ==
    IF st.charIndex < toCharIndex(in, st.partIndex)
    THEN LET charCode == charCodeAt(in.lineContent, st.charIndex)
             count == insertSpacesCount(in.tabSize, st.charIndex, st.tabsCharDelta)
             extra == IF charCode = Tab THEN count - 1 ELSE 0
             offset == st.charOffsetInPart + extra + 1
             glyphs == plainGlyphs(in, charCode, count)
         IN  IF st.charIndex >= charBreakIndex(in)
             THEN [st EXCEPT !.pc = "return_truncated",
                             !.tabsCharDelta = @ + extra,
                             !.charOffsetInPart = offset,
                             !.out = (@ \o glyphs) \o <<Hellip, CloseTag, CloseTag>>,
                             !.charOffsetInPartArr =
                                 ArraySet(ArraySet(@, st.charIndex, st.charOffsetInPart),
                                          st.charIndex, offset),
                             !.lastRenderedPartIndex = Len(in.parts) - 1]
             ELSE [st EXCEPT !.tabsCharDelta = @ + extra,
                             !.charOffsetInPart = offset,
                             !.out = @ \o glyphs,
                             !.charOffsetInPartArr = ArraySet(@, st.charIndex, st.charOffsetInPart),
                             !.charIndex = @ + 1]
    ELSE [st EXCEPT !.pc = "part",
                    !.out = Append(@, CloseTag),
                    !.partIndex = @ + 1]

\* plainLoop leaving the wrapper of a part open at the end of the part
plainLoop_noSegmentClose(in, st) ==
    IF st.charIndex < toCharIndex(in, st.partIndex)
    THEN LET charCode == charCodeAt(in.lineContent, st.charIndex)
             count == insertSpacesCount(in.tabSize, st.charIndex, st.tabsCharDelta)
             extra == IF charCode = Tab THEN count - 1 ELSE 0
             offset == st.charOffsetInPart + extra + 1
             glyphs == plainGlyphs(in, charCode, count)
         IN  IF st.charIndex >= charBreakIndex(in)
             THEN [st EXCEPT !.pc = "return_truncated",
                             !.tabsCharDelta = @ + extra,
                             !.charOffsetInPart = offset,
                             !.out = (@ \o glyphs) \o <<Hellip, CloseTag, CloseTag>>,
                             !.charOffsetInPartArr =
                                 ArraySet(ArraySet(@, st.charIndex, st.charOffsetInPart),
                                          st.charIndex, offset),
                             !.lastRenderedPartIndex = st.partIndex]
             ELSE [st EXCEPT !.tabsCharDelta = @ + extra,
                             !.charOffsetInPart = offset,
                             !.out = @ \o glyphs,
                             !.charOffsetInPartArr = ArraySet(@, st.charIndex, st.charOffsetInPart),
                             !.charIndex = @ + 1]
    ELSE [st EXCEPT !.pc = "part",
                    !.partIndex = @ + 1]

plainLoop(in, st) ==
    IF st.charIndex < toCharIndex(in, st.partIndex)
    THEN LET charCode == charCodeAt(in.lineContent, st.charIndex)
             count == insertSpacesCount(in.tabSize, st.charIndex, st.tabsCharDelta)
             extra == IF charCode = Tab THEN count - 1 ELSE 0
             offset == st.charOffsetInPart + extra + 1
             glyphs == plainGlyphs(in, charCode, count)
         IN  IF st.charIndex >= charBreakIndex(in)
             THEN [st EXCEPT !.pc = "return_truncated",
                             !.tabsCharDelta = @ + extra,
                             !.charOffsetInPart = offset,
                             !.out = (@ \o glyphs) \o <<Hellip, CloseTag, CloseTag>>,
                             !.charOffsetInPartArr =
                                 ArraySet(ArraySet(@, st.charIndex, st.charOffsetInPart),
                                          st.charIndex, offset),
                             !.lastRenderedPartIndex = st.partIndex]
             ELSE [st EXCEPT !.tabsCharDelta = @ + extra,
                             !.charOffsetInPart = offset,
                             !.out = @ \o glyphs,
                             !.charOffsetInPartArr = ArraySet(@, st.charIndex, st.charOffsetInPart),
                             !.charIndex = @ + 1]
    ELSE [st EXCEPT !.pc = "part",
                    !.out = Append(@, CloseTag),
                    !.partIndex = @ + 1]

(***************************************************************************)
(* The requests the model renders.                                         *)
(***************************************************************************)
PartTypes == {<<"comment">>, <<"leading", "whitespace">>}
WhitespaceModes == {"none", "boundary", "all"}
SpaceWidths == {7, 10}

Texts(alphabet, maxLen) == UNION {[1..n -> alphabet] : n \in 0..maxLen}

\* the part lists of at most maxParts parts with start indices up to maxStart
PartLists(maxParts, maxStart) ==
    UNION {[1..n -> [startIndex : 0..maxStart, type : PartTypes]] : n \in 0..maxParts}

\* the part lists a caller is to pass: ordered by start index, the first
\* part starting at 0
OrderedPartLists(maxParts, maxStart) ==
    {p \in PartLists(maxParts, maxStart) :
        /\ Len(p) > 0
        /\ p[1].startIndex = 0
        /\ \A j \in 1..(Len(p) - 1) : p[j].startIndex <= p[j + 1].startIndex}

\* every layout of ordered parts (or no part at all), tabs and truncation
\* column over the lines of at most MaxLen tabs and spaces
LayoutRequests ==
    [lineContent : Texts({Tab, Space}, MaxLen),
     tabSize : 1..MaxTabSize,
     spaceWidth : {7},
     stopRenderingLineAfter : {-1} \cup 0..(MaxLen + 1),
     renderWhitespace : {"none", "all"},
     renderHardSpace : {FALSE},
     renderControlCharacters : {FALSE},
     parts : OrderedPartLists(MaxParts, MaxLen + 1) \cup {<<>>}]

\* every combination of the options over the lines of at most one character
OptionRequests ==
    [lineContent : Texts({Tab, Space, LetterA}, 1),
     tabSize : 1..MaxTabSize,
     spaceWidth : SpaceWidths,
     stopRenderingLineAfter : {-1, 0, 1, 2},
     renderWhitespace : WhitespaceModes,
     renderHardSpace : BOOLEAN,
     renderControlCharacters : BOOLEAN,
     parts : PartLists(1, 1)]

\* part lists in any order, starting anywhere, over the lines of at most two
\* characters
UnorderedRequests ==
    [lineContent : Texts({Tab, LetterA}, 2),
     tabSize : {1, 2},
     spaceWidth : {7},
     stopRenderingLineAfter : {-1, 0, 2},
     renderWhitespace : {"none", "all"},
     renderHardSpace : {FALSE},
     renderControlCharacters : {FALSE},
     parts : PartLists(MaxParts, 3)]

\* the characters the plain branch tells apart
CharAlphabet ==
    {Null, StartOfHeading, Tab, CarriageReturn, Space, Ampersand, LessThan,
     GreaterThan, LetterA, HardSpace, LINE_SEPARATOR_2028, UTF8_BOM}

\* every pair of characters, and the line <A&B>, under every whitespace
\* mode and flag, in one part or two parts of either type
CharacterRequests ==
    [lineContent : Texts(CharAlphabet, 2)
                      \cup {<<LessThan, LetterA, Ampersand, LetterB, GreaterThan>>},
     tabSize : {2},
     spaceWidth : {7},
     stopRenderingLineAfter : {-1, 2},
     renderWhitespace : WhitespaceModes,
     renderHardSpace : BOOLEAN,
     renderControlCharacters : BOOLEAN,
     parts : {<<[startIndex |-> 0, type |-> <<"comment">>]>>,
              <<[startIndex |-> 0, type |-> <<"leading", "whitespace">>]>>,
              <<[startIndex |-> 0, type |-> <<"comment">>],
                [startIndex |-> 1, type |-> <<"leading", "whitespace">>]>>,
              <<[startIndex |-> 0, type |-> <<"leading", "whitespace">>],
                [startIndex |-> 1, type |-> <<"comment">>]>>}]

Requests == LayoutRequests \cup OptionRequests \cup UnorderedRequests \cup CharacterRequests

\* renderLine as a function of the request: the steps above, from the call
\* to the return or the throw
RECURSIVE renderLineFrom(_, _)
renderLineFrom(in, st) ==
    CASE st.pc = "call" -> renderLineFrom(in, renderLine(in, st))
      [] st.pc = "part" -> renderLineFrom(in, partLoop(in, st))
      [] st.pc = "whitespace" -> renderLineFrom(in, whitespaceLoop(in, st))
      [] st.pc = "plain" -> renderLineFrom(in, plainLoop(in, st))
      [] OTHER -> st


(***************************************************************************)
(* gotoError.ts: the objects before any navigation.                        *)
(***************************************************************************)
\* the value of a variable that holds no marker
NoMarker == [startLineNumber |-> 0, startColumn |-> 0]

\* a MarkerModel that was disposed: the place of the last model made while
\* the controller has none
NoModel ==
    [_markers |-> <<>>, _nextIdx |-> -1, _ignoreSelectionChange |-> FALSE,
     _toUnbind |-> {}]

NoZone == [_callOnDispose |-> {}]

\* the fields of a MarkerController after its constructor
NewController ==
    [_model |-> FALSE, _zone |-> FALSE, _callOnClose |-> {},
     _markersNavigationVisible |-> FALSE]

\* no handler is running; isNext is the field of the last action run, fired
\* and marker are the argument of the last
\* onCurrentMarkerChanged event of the last handler
NoHandler ==
    [pc |-> "idle", isNext |-> TRUE, fired |-> "none", marker |-> NoMarker,
     error |-> "none"]

NoNavigation ==
    /\ position = [lineNumber |-> 1, column |-> 1]
    /\ serviceMarkers = <<>>
    /\ model = NoModel
    /\ zone = NoZone
    /\ controller = NewController
    /\ nav = NoHandler

(***************************************************************************)
(* The state machine of the renderer.                                      *)
(***************************************************************************)
Init ==
    /\ input \in Requests
    /\ s = Idle
    /\ NoNavigation

\* renderLine returns the fixed markup of an empty line
CallEmpty ==
    /\ s.pc = "call"
    /\ Len(input.lineContent) = 0
    /\ s' = renderLine(input, s)
    /\ UNCHANGED input
    /\ UNCHANGED markerVars

\* renderLine throws
CallThrow ==
    /\ s.pc = "call"
    /\ Len(input.lineContent) # 0
    /\ Len(input.parts) = 0
    /\ s' = renderLine(input, s)
    /\ UNCHANGED input
    /\ UNCHANGED markerVars

\* renderLine calls renderLineActual
CallActual ==
    /\ s.pc = "call"
    /\ Len(input.lineContent) # 0
    /\ Len(input.parts) # 0
    /\ s' = renderLine(input, s)
    /\ UNCHANGED input
    /\ UNCHANGED markerVars

\* the loop over the parts enters a part
PartBegin ==
    /\ s.pc = "part"
    /\ s.partIndex < Len(input.parts)
    /\ s' = partLoop(input, s)
    /\ UNCHANGED input
    /\ UNCHANGED markerVars

\* the loop over the parts is over: the whole line was rendered
Finish ==
    /\ s.pc = "part"
    /\ s.partIndex >= Len(input.parts)
    /\ s' = partLoop(input, s)
    /\ UNCHANGED input
    /\ UNCHANGED markerVars

\* a whitespace part renders one character
WhitespaceChar ==
    /\ s.pc = "whitespace"
    /\ s.charIndex < toCharIndex(input, s.partIndex)
    /\ s' = whitespaceLoop(input, s)
    /\ UNCHANGED input
    /\ UNCHANGED markerVars

\* a whitespace part is over
WhitespaceEnd ==
    /\ s.pc = "whitespace"
    /\ s.charIndex >= toCharIndex(input, s.partIndex)
    /\ s' = whitespaceLoop(input, s)
    /\ UNCHANGED input
    /\ UNCHANGED markerVars

\* a plain part renders one character
PlainChar ==
    /\ s.pc = "plain"
    /\ s.charIndex < toCharIndex(input, s.partIndex)
    /\ s' = plainLoop(input, s)
    /\ UNCHANGED input
    /\ UNCHANGED markerVars

\* a plain part is over
PlainEnd ==
    /\ s.pc = "plain"
    /\ s.charIndex >= toCharIndex(input, s.partIndex)
    /\ s' = plainLoop(input, s)
    /\ UNCHANGED input
    /\ UNCHANGED markerVars

Next ==
    \/ CallEmpty
    \/ CallThrow
    \/ CallActual
    \/ PartBegin
    \/ Finish
    \/ WhitespaceChar
    \/ WhitespaceEnd
    \/ PlainChar
    \/ PlainEnd

Spec == Init /\ [][Next]_vars

\* the renderer is synchronous: a call that has started runs to its end
FairSpec == Spec /\ WF_vars(Next)

(***************************************************************************)
(* Vocabulary of the properties.                                           *)
(***************************************************************************)
lineTextLength == Len(input.lineContent)

Returned == s.pc \in {"return", "return_truncated", "return_empty"}
Truncated == s.pc = "return_truncated"
Failed == s.pc = "throw"

\* the parts are ordered by start index and the first one starts at 0
ValidRequest ==
    /\ Len(input.parts) > 0
    /\ input.parts[1].startIndex = 0
    /\ \A j \in 1..(Len(input.parts) - 1) :
          input.parts[j].startIndex <= input.parts[j + 1].startIndex

\* the index of the segment character i belongs to: the first part whose
\* end is beyond i
SegmentOf(i) ==
    CHOOSE j \in 0..(Len(input.parts) - 1) :
        /\ toCharIndex(input, j) > i
        /\ \A k \in 0..(j - 1) : toCharIndex(input, k) <= i

\* the visual column at which character i starts
RECURSIVE VisualColumn(_)
VisualColumn(i) ==
    IF i = 0 THEN 0
    ELSE LET v == VisualColumn(i - 1)
         IN  IF charCodeAt(input.lineContent, i - 1) = Tab
             THEN v + input.tabSize - (v % input.tabSize)
             ELSE v + 1

\* the number of columns character i takes
ColumnsOf(i) ==
    IF charCodeAt(input.lineContent, i) = Tab
    THEN input.tabSize - (VisualColumn(i) % input.tabSize)
    ELSE 1

\* entry i of the offset table
Entry(i) == s.charOffsetInPartArr[i + 1]
Entries == Len(s.charOffsetInPartArr)

EmptyLineMarkup == <<Lit("<span>"), Lit("<span>"), Lit("&nbsp;"), Lit("</span>"), Lit("</span>")>>

(***************************************************************************)
(* C1: render fails exactly when the line is non-empty and the part list   *)
(* is empty, and it has then produced no markup and no offset entry; no    *)
(* other request fails.                                                    *)
(***************************************************************************)
C1_FailsOnlyWithoutParts ==
    /\ Failed <=> (s.pc # "call" /\ lineTextLength > 0 /\ Len(input.parts) = 0)
    /\ Failed => (s.out = <<>> /\ s.charOffsetInPartArr = <<>> /\ s.lastRenderedPartIndex = -1)

C1_Witness ==
    /\ Failed
    /\ lineTextLength = MaxLen
    /\ input.parts = <<>>

(***************************************************************************)
(* C2: a request whose line is empty returns, whatever its options and     *)
(* parts (an empty part list included), the fixed markup                   *)
(* <span><span>&nbsp;</span></span>, an empty offset table and a last      *)
(* rendered part index of 0.                                               *)
(***************************************************************************)
C2_EmptyLine ==
    (s.pc # "call" /\ lineTextLength = 0) =>
        /\ s.pc = "return_empty"
        /\ s.out = EmptyLineMarkup
        /\ s.charOffsetInPartArr = <<>>
        /\ s.lastRenderedPartIndex = 0

C2_Witness ==
    /\ s.pc = "return_empty"
    /\ input.parts = <<>>
    /\ input.stopRenderingLineAfter = 0
    /\ input.renderWhitespace = "all"
    /\ input.renderHardSpace
    /\ input.renderControlCharacters
    /\ s.out = EmptyLineMarkup

(***************************************************************************)
(* C3: a request with a positive tab size and a non-empty part list never  *)
(* fails and eventually returns, with a last rendered part index that is   *)
(* an index of the part list.                                              *)
(***************************************************************************)
C3_Terminates ==
    (input.tabSize > 0 /\ Len(input.parts) > 0) =>
        /\ [](~Failed)
        /\ <>(Returned /\ s.lastRenderedPartIndex \in 0..(Len(input.parts) - 1))

\* tab size 1, truncation column 0, a line of control characters only
C3_Witness ==
    /\ Returned
    /\ input.tabSize = 1
    /\ input.stopRenderingLineAfter = 0
    /\ input.lineContent = <<Tab, Tab>>
    /\ s.lastRenderedPartIndex = 0
    /\ s.charOffsetInPartArr = <<1>>

(***************************************************************************)
(* C4: for a valid request with a non-empty line the offset table has      *)
(* min(text.length, breakIndex) + 1 entries when truncation fired and      *)
(* text.length + 1 entries when it did not.                                *)
(***************************************************************************)
C4_EntryCount ==
    (Returned /\ ValidRequest /\ lineTextLength > 0) =>
        Entries = IF Truncated
                  THEN Min(lineTextLength, charBreakIndex(input)) + 1
                  ELSE lineTextLength + 1

(***************************************************************************)
(* C5: in every result for a valid request, truncated or not, the entry at *)
(* the first character index of each segment that contributed entries is   *)
(* 0, and the entries of the character indices of one segment are          *)
(* non-decreasing.                                                         *)
(***************************************************************************)
\* the character indices that have an entry
RecordedChars == {i \in 0..(lineTextLength - 1) : i < Entries}

\* i is the first character of its segment
FirstOfSegment(i) == i = 0 \/ SegmentOf(i - 1) # SegmentOf(i)

\* i is the character at which a truncated render stopped
LastOfTruncated(i) == Truncated /\ i = Entries - 1

NonDecreasingInSegments ==
    \A i, k \in RecordedChars :
        (i <= k /\ SegmentOf(i) = SegmentOf(k)) => Entry(i) <= Entry(k)

\* the claim as stated, on the requests whose truncation column is not 0
\* (column 0 is the input on which C4 fails)
C5_Original ==
    (Returned /\ ValidRequest /\ lineTextLength > 0 /\ input.stopRenderingLineAfter # 0) =>
        /\ \A i \in RecordedChars : FirstOfSegment(i) => Entry(i) = 0
        /\ NonDecreasingInSegments

\* amended: the entry of the character at which a truncated render stopped
\* is the offset after that character, so it is the character's width when
\* the character is the first of its segment
C5_SegmentStartsAtZero ==
    (Returned /\ ValidRequest /\ lineTextLength > 0) =>
        /\ \A i \in RecordedChars :
              FirstOfSegment(i) =>
                  Entry(i) = IF LastOfTruncated(i) THEN ColumnsOf(i) ELSE 0
        /\ NonDecreasingInSegments

\* two segments, a complete render: both segments start at 0
C5_Witness ==
    /\ s.pc = "return"
    /\ ValidRequest
    /\ input.lineContent = <<Tab, Space, Space>>
    /\ input.tabSize = 3
    /\ Len(input.parts) = 2
    /\ input.parts[2].startIndex = 1
    /\ s.charOffsetInPartArr = <<0, 0, 1, 2>>

(***************************************************************************)
(* C6: in every result, for two consecutive character indices i and i+1 of *)
(* the same segment that both have an entry, entry[i+1] - entry[i] is 1    *)
(* when text[i] is not a tab and the run length of the tab when it is, the *)
(* last recorded character of a truncated render included.                 *)
(***************************************************************************)
C6_Original ==
    (Returned /\ lineTextLength > 0) =>
        \A i \in RecordedChars :
            (i + 1 \in RecordedChars /\ SegmentOf(i) = SegmentOf(i + 1)) =>
                Entry(i + 1) - Entry(i) = ColumnsOf(i)

\* amended: the entry of the character at which a truncated render stopped
\* also counts the columns of that character itself
C6_EntryDifference ==
    (Returned /\ lineTextLength > 0) =>
        \A i \in RecordedChars :
            (i + 1 \in RecordedChars /\ SegmentOf(i) = SegmentOf(i + 1)) =>
                Entry(i + 1) - Entry(i) =
                    ColumnsOf(i) + (IF LastOfTruncated(i + 1) THEN ColumnsOf(i + 1) ELSE 0)

\* a tab in the middle of a segment
C6_Witness ==
    /\ s.pc = "return"
    /\ input.lineContent = <<Space, Tab, Space>>
    /\ input.tabSize = 3
    /\ Len(input.parts) = 1
    /\ s.charOffsetInPartArr = <<0, 1, 3, 4>>

(***************************************************************************)
(* C7: for a valid request with 1 <= truncateAfterColumn <= text.length,   *)
(* render processes the characters 0 .. truncateAfterColumn-1 and no       *)
(* other, the markup ends with the ellipsis and the two closing tags, the  *)
(* last rendered part index is the segment of character                    *)
(* truncateAfterColumn-1 and the offset table has truncateAfterColumn      *)
(* entries, in the plain and in the whitespace branch.                     *)
(***************************************************************************)
EndsWith(seq, tail) ==
    /\ Len(seq) >= Len(tail)
    /\ SubSeq(seq, Len(seq) - Len(tail) + 1, Len(seq)) = tail

C7_Truncation ==
    (ValidRequest /\ input.stopRenderingLineAfter \in 1..lineTextLength) =>
        /\ s.charIndex <= input.stopRenderingLineAfter - 1
        /\ s.pc # "return"
        /\ Returned =>
              /\ Truncated
              /\ s.charIndex = input.stopRenderingLineAfter - 1
              /\ EndsWith(s.out, <<Hellip, CloseTag, CloseTag>>)
              /\ s.lastRenderedPartIndex = SegmentOf(input.stopRenderingLineAfter - 1)
              /\ Entries = input.stopRenderingLineAfter

\* truncation in the second segment, a whitespace segment
C7_Witness ==
    /\ Truncated
    /\ ValidRequest
    /\ lineTextLength = 3
    /\ input.stopRenderingLineAfter = 2
    /\ Len(input.parts) = 2
    /\ input.parts[2].startIndex = 1
    /\ parsRendersWhitespace(input, input.parts[2])
    /\ s.lastRenderedPartIndex = 1
    /\ Entries = 2

(***************************************************************************)
(* C8: for a valid request with a non-empty line the last rendered part    *)
(* index is parts.length - 1 when the whole line was rendered and strictly *)
(* smaller whenever truncation fired.                                      *)
(***************************************************************************)
\* the claim as stated, on the requests whose truncation column is not 0
\* (column 0 is the input on which C4 fails)
C8_Original ==
    (Returned /\ ValidRequest /\ lineTextLength > 0 /\ input.stopRenderingLineAfter # 0) =>
        /\ ~Truncated => s.lastRenderedPartIndex = Len(input.parts) - 1
        /\ Truncated => s.lastRenderedPartIndex < Len(input.parts) - 1

\* amended: when truncation fired it is the segment of the last rendered
\* character, which is at most parts.length - 1
C8_LastRenderedPart ==
    (Returned /\ ValidRequest /\ lineTextLength > 0) =>
        /\ ~Truncated => s.lastRenderedPartIndex = Len(input.parts) - 1
        /\ Truncated =>
              /\ s.lastRenderedPartIndex = SegmentOf(s.charIndex)
              /\ s.lastRenderedPartIndex <= Len(input.parts) - 1

\* truncation in the first of two segments
C8_Witness ==
    /\ Truncated
    /\ ValidRequest
    /\ Len(input.parts) = 2
    /\ input.parts[2].startIndex = 2
    /\ input.stopRenderingLineAfter = 1
    /\ s.lastRenderedPartIndex = 0

(***************************************************************************)
(* C9: for every tab processed, in either branch and in any segment, the   *)
(* run length computed from the visual column satisfies                    *)
(* 1 <= run <= tabSize and the visual column after the tab is a multiple   *)
(* of tabSize; tabsCharDelta is not reset at a segment boundary.           *)
(***************************************************************************)
\* the next step processes the character at s.charIndex
ProcessesChar ==
    /\ s.pc \in {"whitespace", "plain"}
    /\ s.charIndex < toCharIndex(input, s.partIndex)

C9_TabStep ==
    /\ (ProcessesChar /\ charCodeAt(input.lineContent, s.charIndex) = Tab) =>
          LET run == s'.tabsCharDelta - s.tabsCharDelta + 1
          IN  /\ run >= 1
              /\ run <= input.tabSize
              /\ run = ColumnsOf(s.charIndex)
              /\ (s.charIndex + 1 + s'.tabsCharDelta) % input.tabSize = 0
    /\ (ProcessesChar /\ charCodeAt(input.lineContent, s.charIndex) # Tab) =>
          s'.tabsCharDelta = s.tabsCharDelta
    /\ (~ProcessesChar /\ s.pc # "call") => s'.tabsCharDelta = s.tabsCharDelta

C9_TabStops == [][C9_TabStep]_vars

\* the second tab is in the second segment and ends at column 6
C9_Witness ==
    /\ input.lineContent = <<Tab, Tab>>
    /\ input.tabSize = 3
    /\ Len(input.parts) = 2
    /\ input.parts[2].startIndex = 1
    /\ s.partIndex = 1
    /\ s.charIndex = 2
    /\ s.tabsCharDelta = 4

(***************************************************************************)
(* C10: in a whitespace-rendered segment, complete or cut by truncation,   *)
(* a space emits one middle dot and a tab one rightwards arrow followed by *)
(* run - 1 non-breaking spaces, and the width of the segment wrapper is    *)
(* spaceWidth times the number of glyphs of the segment, which is          *)
(* spaceWidth times the offset reached after the last processed character. *)
(***************************************************************************)
C10_WhitespaceStep ==
    /\ (s.pc = "part" /\ s'.pc = "whitespace") =>
          (s'.partContent = <<>> /\ s'.partContentCnt = 0 /\ s'.charOffsetInPart = 0)
    /\ s.pc = "whitespace" =>
          LET charCode == charCodeAt(input.lineContent, s.charIndex)
              glyphs == IF ~ProcessesChar THEN <<>>
                        ELSE IF charCode = Tab
                        THEN <<Rarr>> \o Repeat(Nbsp, ColumnsOf(s.charIndex) - 1)
                        ELSE <<Middot>>
              content == s.partContent \o glyphs
              wrapper == OpenTagWidth(part(input, s).type, input.spaceWidth * Len(content))
          IN  /\ s'.charOffsetInPart = Len(content)
              /\ s'.partContentCnt = Len(content)
              /\ s'.pc = "whitespace" => (s'.partContent = content /\ s'.out = s.out)
              /\ s'.pc = "part" =>
                     s'.out = (s.out \o <<wrapper>>) \o (content \o <<CloseTag>>)
              /\ s'.pc = "return_truncated" =>
                     s'.out = (s.out \o <<wrapper>>) \o (content \o <<Hellip, CloseTag, CloseTag>>)

C10_WhitespaceSegment == [][C10_WhitespaceStep]_vars

\* a space and a tab of two columns, cut by truncation: three glyphs
C10_Witness ==
    /\ Truncated
    /\ input.lineContent = <<Space, Tab>>
    /\ input.tabSize = 3
    /\ input.spaceWidth = 7
    /\ Len(input.parts) = 1
    /\ s.charOffsetInPart = 3
    /\ s.out = <<OuterOpen, OpenTagWidth(input.parts[1].type, 21),
                 Middot, Rarr, Nbsp, Hellip, CloseTag, CloseTag>>

(***************************************************************************)
(* C11: in a plain-rendered segment every character produces its one       *)
(* output token and one offset-table entry: <, > and & become &lt;, &gt;   *)
(* and &amp;, a space one &nbsp;, a tab run &nbsp; and no arrow, and an    *)
(* ordinary character is copied unchanged; a complete render of <A&B> in   *)
(* one plain segment has one entry per character and one trailing entry.   *)
(***************************************************************************)
\* the pieces a step appended to the markup before the closing pieces of a
\* truncation
Emitted ==
    SubSeq(s'.out, Len(s.out) + 1,
           Len(s'.out) - (IF s'.pc = "return_truncated" THEN 3 ELSE 0))

EscapeLine == <<LessThan, LetterA, Ampersand, LetterB, GreaterThan>>

C11_PlainStep ==
    (s.pc = "plain" /\ ProcessesChar) =>
        LET charCode == charCodeAt(input.lineContent, s.charIndex)
        IN  /\ SubSeq(s'.out, 1, Len(s.out)) = s.out
            /\ Len(s'.charOffsetInPartArr) = Len(s.charOffsetInPartArr) + 1
            /\ charCode # Tab => Len(Emitted) = 1
            /\ charCode = LessThan => Emitted = <<Lit("&lt;")>>
            /\ charCode = GreaterThan => Emitted = <<Lit("&gt;")>>
            /\ charCode = Ampersand => Emitted = <<Lit("&amp;")>>
            /\ charCode = Space => Emitted = <<Lit("&nbsp;")>>
            /\ charCode = Tab => Emitted = Repeat(Lit("&nbsp;"), ColumnsOf(s.charIndex))
            /\ charCode \in {LetterA, LetterB} => Emitted = <<Chr(charCode)>>

C11_EscapeLine ==
    (s.pc = "return" /\ input.lineContent = EscapeLine /\ Len(input.parts) = 1
        /\ ~parsRendersWhitespace(input, input.parts[1])) =>
        /\ Entries = 6
        /\ s.out = <<OuterOpen, OpenTag(input.parts[1].type),
                     Lit("&lt;"), Chr(LetterA), Lit("&amp;"), Chr(LetterB), Lit("&gt;"),
                     CloseTag, CloseTag>>

C11_PlainSegment == [][C11_PlainStep]_vars /\ []C11_EscapeLine

C11_Witness ==
    /\ s.pc = "return"
    /\ input.lineContent = EscapeLine
    /\ input.parts = <<[startIndex |-> 0, type |-> <<"comment">>]>>
    /\ s.charOffsetInPartArr = <<0, 1, 2, 3, 4, 5>>
    /\ s.out[5] = Lit("&amp;")

(***************************************************************************)
(* C12: for a valid request with a non-empty line on which truncation does *)
(* not fire, an empty last segment included, the last entry of the offset  *)
(* table is at index text.length and is the running offset at the end of   *)
(* processing, which is the last character's entry plus 1, or plus its run *)
(* length if it is a tab.                                                  *)
(***************************************************************************)
LastChar == lineTextLength - 1

C12_Original ==
    (s.pc = "return" /\ ValidRequest /\ lineTextLength > 0) =>
        /\ Entries = lineTextLength + 1
        /\ Entry(lineTextLength) = s.charOffsetInPart
        /\ Entry(lineTextLength) = Entry(LastChar) + ColumnsOf(LastChar)

\* amended: when the last part has no character the running offset was
\* reset to 0 after the last character, and the trailing entry is 0
C12_TrailingEntry ==
    (s.pc = "return" /\ ValidRequest /\ lineTextLength > 0) =>
        /\ Entries = lineTextLength + 1
        /\ Entry(lineTextLength) = s.charOffsetInPart
        /\ Entry(lineTextLength) =
              IF SegmentOf(LastChar) = Len(input.parts) - 1
              THEN Entry(LastChar) + ColumnsOf(LastChar)
              ELSE 0

\* the last character is a tab of two columns in the last part
C12_Witness ==
    /\ s.pc = "return"
    /\ ValidRequest
    /\ input.lineContent = <<Space, Tab>>
    /\ input.tabSize = 3
    /\ Len(input.parts) = 2
    /\ input.parts[2].startIndex = 1
    /\ s.charOffsetInPartArr = <<0, 0, 2>>

(***************************************************************************)
(* C13: a segment takes the whitespace branch exactly when its category    *)
(* contains 'whitespace' and the whitespace mode is not 'none'; requests   *)
(* that differ only in mode 'boundary' versus 'all' have the same result;  *)
(* with mode 'none' a whitespace segment is rendered by the plain branch:  *)
(* no arrow, no middle dot for tabs and spaces, no width on its wrapper.   *)
(***************************************************************************)
Result(st) ==
    [pc |-> st.pc, output |-> st.out, charOffsetInPart |-> st.charOffsetInPartArr,
     lastRenderedPartIndex |-> st.lastRenderedPartIndex]

HasWhitespaceCategory(p) == \E k \in 1..Len(p.type) : p.type[k] = "whitespace"

C13_BranchChoice ==
    /\ s.pc = "whitespace" =>
          (HasWhitespaceCategory(part(input, s)) /\ input.renderWhitespace \in {"boundary", "all"})
    /\ s.pc = "plain" =>
          ~(HasWhitespaceCategory(part(input, s)) /\ input.renderWhitespace \in {"boundary", "all"})
    /\ ((Returned \/ Failed) /\ input.renderWhitespace = "boundary") =>
          Result(s) = Result(renderLineFrom([input EXCEPT !.renderWhitespace = "all"], Idle))
    /\ input.renderWhitespace = "none" =>
          \A k \in 1..Len(s.out) :
              /\ s.out[k] # Rarr
              /\ s.out[k].kind # "<span class=token style=width>"
              /\ s.out[k] = Middot =>
                    (input.renderHardSpace /\ \E i \in 1..lineTextLength : input.lineContent[i] = HardSpace)

\* mode 'boundary': a tab and a space of a whitespace part as arrow, &nbsp;
\* and middle dot
C13_Witness ==
    /\ s.pc = "return"
    /\ input.renderWhitespace = "boundary"
    /\ input.lineContent = <<Tab, Space>>
    /\ s.out = <<OuterOpen, OpenTagWidth(<<"leading", "whitespace">>, 21),
                 Rarr, Nbsp, Middot, CloseTag, CloseTag>>

(***************************************************************************)
(* C14: in a plain-rendered segment a code point below 32 without a        *)
(* dedicated rule is emitted as the code point plus 9216 when              *)
(* renderControlCharacters is set and as the raw character otherwise; no   *)
(* code point of 32 or above is shifted; tab, NUL and carriage return      *)
(* follow their own rules whatever renderControlCharacters is.             *)
(***************************************************************************)
C14_PlainStep ==
    (s.pc = "plain" /\ ProcessesChar) =>
        LET charCode == charCodeAt(input.lineContent, s.charIndex)
        IN  /\ (charCode < 32 /\ charCode \notin {Tab, Null, CarriageReturn}) =>
                  Emitted = <<Chr(IF input.renderControlCharacters
                                  THEN charCode + 9216 ELSE charCode)>>
            /\ charCode >= 32 =>
                  \A k \in 1..Len(Emitted) :
                      Emitted[k].kind = "char" => Emitted[k].code = charCode
            /\ charCode = Tab => Emitted = Repeat(Lit("&nbsp;"), ColumnsOf(s.charIndex))
            /\ charCode = Null => Emitted = <<Lit("&#00;")>>
            /\ charCode = CarriageReturn => Emitted = <<Lit("&#8203")>>

C14_ControlCharacters == [][C14_PlainStep]_vars

\* U+0001 as U+2401, next to a carriage return, with the flag set
C14_Witness ==
    /\ s.pc = "return"
    /\ input.renderControlCharacters
    /\ input.lineContent = <<StartOfHeading, CarriageReturn>>
    /\ Len(input.parts) = 1
    /\ s.out = <<OuterOpen, OpenTag(<<"comment">>), Chr(9217), Lit("&#8203"),
                 CloseTag, CloseTag>>

(***************************************************************************)
(* C15: the markup of a result on a non-empty line is one outer wrapper,   *)
(* opened once and closed once, holding lastRenderedPartIndex + 1 segment  *)
(* wrappers in part order, each opened and closed; a segment without       *)
(* characters is an empty wrapper and adds no offset entry and no glyph;   *)
(* the ellipsis appears at most once, only when truncation fired, as the   *)
(* last piece inside the last segment wrapper.                             *)
(***************************************************************************)
IsSegmentOpen(piece) ==
    piece.kind \in {"<span class=token>", "<span class=token style=width>"}

SegmentOpens == {k \in 1..Len(s.out) : IsSegmentOpen(s.out[k])}
Closes == {k \in 1..Len(s.out) : s.out[k] = CloseTag}
Ellipses == {k \in 1..Len(s.out) : s.out[k] = Hellip}

\* the number of the segment wrapper opened at position k, from 0
WrapperIndex(k) == Cardinality({m \in SegmentOpens : m < k})

\* the position of the first closing tag after position k
CloseAfter(k) == CHOOSE c \in Closes : c > k /\ \A d \in Closes : d > k => c <= d

C15_MarkupStructure ==
    (s.pc \in {"return", "return_truncated"}) =>
        /\ s.out[1] = OuterOpen
        /\ \A k \in 2..Len(s.out) : s.out[k] # OuterOpen
        /\ s.out[Len(s.out)] = CloseTag
        /\ Cardinality(SegmentOpens) = s.lastRenderedPartIndex + 1
        /\ Cardinality(Closes) = Cardinality(SegmentOpens) + 1
        /\ \A k \in SegmentOpens :
              /\ s.out[k].type = input.parts[WrapperIndex(k) + 1].type
              /\ \E c \in Closes : c > k
              /\ CloseAfter(k) < Len(s.out)
              /\ \A m \in SegmentOpens : ~(k < m /\ m < CloseAfter(k))
              /\ (\A i \in 0..(lineTextLength - 1) : SegmentOf(i) # WrapperIndex(k)) =>
                     CloseAfter(k) = k + 1
        /\ Entries = IF Truncated THEN s.charIndex + 1 ELSE lineTextLength + 1
        /\ Cardinality(Ellipses) = IF Truncated THEN 1 ELSE 0
        /\ Truncated => s.out[Len(s.out) - 2] = Hellip

\* an empty segment before the segment of the two characters
C15_Witness ==
    /\ s.pc = "return"
    /\ input.lineContent = <<Tab, LetterA>>
    /\ input.tabSize = 1
    /\ s.charOffsetInPartArr = <<0, 1, 2>>
    /\ s.out = <<OuterOpen,
                 OpenTag(<<"comment">>), CloseTag,
                 OpenTag(<<"comment">>), Nbsp, Chr(LetterA), CloseTag,
                 CloseTag>>

(***************************************************************************)
(* C16: the offset table and the last rendered part index depend only on   *)
(* the text, the tab size, the truncation column and the start indices of  *)
(* the parts: a request has those of the request with the same four and    *)
(* every part plain, and those of the request with the same four and every *)
(* part whitespace-rendered.                                               *)
(***************************************************************************)
Retyped(in, type, mode) ==
    [in EXCEPT !.renderWhitespace = mode,
               !.spaceWidth = 1,
               !.renderHardSpace = ~in.renderHardSpace,
               !.renderControlCharacters = ~in.renderControlCharacters,
               !.parts = [j \in 1..Len(in.parts) |->
                             [startIndex |-> in.parts[j].startIndex, type |-> type]]]

Offsets(st) ==
    [pc |-> st.pc, charOffsetInPart |-> st.charOffsetInPartArr,
     lastRenderedPartIndex |-> st.lastRenderedPartIndex]

C16_OffsetsIgnoreRendering ==
    (Returned \/ Failed) =>
        /\ Offsets(s) = Offsets(renderLineFrom(Retyped(input, <<"comment">>, "none"), Idle))
        /\ Offsets(s) = Offsets(renderLineFrom(Retyped(input, <<"whitespace">>, "all"), Idle))

\* a plain part and a whitespace part, truncated in the second
C16_Witness ==
    /\ Truncated
    /\ input.lineContent = <<Tab, Tab, Space>>
    /\ input.tabSize = 3
    /\ input.renderWhitespace = "all"
    /\ Len(input.parts) = 2
    /\ ~parsRendersWhitespace(input, input.parts[1])
    /\ parsRendersWhitespace(input, input.parts[2])
    /\ input.parts[2].startIndex = 1
    /\ s.charOffsetInPartArr = <<0, 3>>
    /\ s.lastRenderedPartIndex = 1

(***************************************************************************)
(* Model of vs/editor/contrib/gotoError/browser/gotoError.ts: MarkerModel, *)
(* MarkerNavigationWidget, MarkerNavigationAction and MarkerController.    *)
(* Arrays are 1-based sequences, _nextIdx keeps the 0-based value of the   *)
(* source.  All markers have one severity, so that setMarkers orders them  *)
(* by the start of their range.                                            *)
(***************************************************************************)
\* the start of the range of a marker, as a position
markerStart(marker) ==
    [lineNumber |-> marker.startLineNumber, column |-> marker.startColumn]

\* Position.isBeforeOrEqual, as initIdx and findMarkerAtPosition use it
isBeforeOrEqual(a, b) ==
    \/ a.lineNumber < b.lineNumber
    \/ a.lineNumber = b.lineNumber /\ a.column <= b.column

\* the comparison of setMarkers for markers of one severity
compareRangesUsingStarts(left, right) ==
    IF left.startLineNumber # right.startLineNumber
    THEN left.startLineNumber - right.startLineNumber
    ELSE left.startColumn - right.startColumn

\* the array after one more element is put in its place
insertSorted(sorted, marker) ==
    LET before == {i \in 1..Len(sorted) : compareRangesUsingStarts(sorted[i], marker) <= 0}
        k == Cardinality(before)
    IN  SubSeq(sorted, 1, k) \o <<marker>> \o SubSeq(sorted, k + 1, Len(sorted))

RECURSIVE sortMarkers(_)
sortMarkers(markers) ==
    IF markers = <<>> THEN <<>>
    ELSE insertSorted(sortMarkers(SubSeq(markers, 1, Len(markers) - 1)),
                      markers[Len(markers)])

\* MarkerModel.setMarkers
setMarkers(mm, markers) ==
    [mm EXCEPT !._markers = sortMarkers(markers), !._nextIdx = -1]

canNavigate(mm) == Len(mm._markers) > 0

\* MarkerModel.initIdx: the value it leaves in _nextIdx
initIdx(mm, pos, fwd) ==
    LET n == Len(mm._markers)
        hits == {i \in 0..(n - 1) : isBeforeOrEqual(pos, markerStart(mm._markers[i + 1]))}
        idx == IF hits = {} THEN (IF fwd THEN 0 ELSE n - 1)
               ELSE (CHOOSE i \in hits : \A j \in hits : i <= j) + (IF fwd THEN 0 ELSE -1)
    IN  IF idx < 0 THEN n - 1 ELSE idx

move_noWrapForward(mm, pos, fwd) ==
    LET n == Len(mm._markers) IN
    IF ~canNavigate(mm)
    THEN [_nextIdx |-> mm._nextIdx, fired |-> "undefined", marker |-> NoMarker]
    ELSE LET idx == IF mm._nextIdx = -1 THEN initIdx(mm, pos, fwd)
                    ELSE IF fwd
                         THEN (IF mm._nextIdx + 1 > n THEN 0 ELSE mm._nextIdx + 1)
                         ELSE (IF mm._nextIdx - 1 < 0 THEN n - 1 ELSE mm._nextIdx - 1)
         IN  [_nextIdx |-> idx, fired |-> "marker",
              marker |-> IF idx + 1 \in 1..n THEN mm._markers[idx + 1] ELSE NoMarker]

move_backwardStopsAtFirst(mm, pos, fwd) ==
    LET n == Len(mm._markers) IN
    IF ~canNavigate(mm)
    THEN [_nextIdx |-> mm._nextIdx, fired |-> "undefined", marker |-> NoMarker]
    ELSE LET idx == IF mm._nextIdx = -1 THEN initIdx(mm, pos, fwd)
                    ELSE IF fwd
                         THEN (IF mm._nextIdx + 1 >= n THEN 0 ELSE mm._nextIdx + 1)
                         ELSE (IF mm._nextIdx - 1 < 0 THEN 0 ELSE mm._nextIdx - 1)
         IN  [_nextIdx |-> idx, fired |-> "marker",
              marker |-> IF idx + 1 \in 1..n THEN mm._markers[idx + 1] ELSE NoMarker]

\* MarkerModel.move: the value it leaves in _nextIdx and the argument of the
\* onCurrentMarkerChanged event it fires
move(mm, pos, fwd) ==
    LET n == Len(mm._markers) IN
    IF ~canNavigate(mm)
    THEN [_nextIdx |-> mm._nextIdx, fired |-> "undefined", marker |-> NoMarker]
    ELSE LET idx == IF mm._nextIdx = -1 THEN initIdx(mm, pos, fwd)
                    ELSE IF fwd
                         THEN (IF mm._nextIdx + 1 >= n THEN 0 ELSE mm._nextIdx + 1)
                         ELSE (IF mm._nextIdx - 1 < 0 THEN n - 1 ELSE mm._nextIdx - 1)
         IN  [_nextIdx |-> idx, fired |-> "marker",
              marker |-> IF idx + 1 \in 1..n THEN mm._markers[idx + 1] ELSE NoMarker]

onDidChangeCursorPosition_alwaysResets(mm) ==
    IF "onDidChangeCursorPosition" \notin mm._toUnbind THEN mm
    ELSE [mm EXCEPT !._nextIdx = -1]

\* the listener the constructor of MarkerModel gives to
\* editor.onDidChangeCursorPosition, while it is bound
onDidChangeCursorPosition(mm) ==
    IF "onDidChangeCursorPosition" \notin mm._toUnbind THEN mm
    ELSE IF ~mm._ignoreSelectionChange THEN [mm EXCEPT !._nextIdx = -1]
    ELSE mm

\* the constructor of MarkerModel
newMarkerModel(markers) ==
    setMarkers([_markers |-> <<>>, _nextIdx |-> -1,
                _ignoreSelectionChange |-> FALSE,
                _toUnbind |-> {"onDidDispose", "onDidChangeCursorPosition"}],
               markers)

\* the constructor of MarkerNavigationWidget with _wireModelAndView
newMarkerNavigationWidget ==
    [_callOnDispose |-> {"onCurrentMarkerChanged", "onMarkerSetChanged"}]

\* the three objects a handler of the controller works on
Objects == [model |-> model, zone |-> zone, controller |-> controller]

_cleanUp_keepsListeners(o) ==
    [model |-> IF "model" \in o.controller._callOnClose
               THEN [o.model EXCEPT !._toUnbind = {}] ELSE o.model,
     zone |-> IF "zone" \in o.controller._callOnClose
              THEN [o.zone EXCEPT !._callOnDispose = {}] ELSE o.zone,
     controller |-> [_model |-> FALSE, _zone |-> FALSE,
                     _callOnClose |-> o.controller._callOnClose \ {"model", "zone"},
                     _markersNavigationVisible |-> FALSE]]

\* MarkerController._cleanUp
_cleanUp(o) ==
    [model |-> IF "model" \in o.controller._callOnClose
               THEN [o.model EXCEPT !._toUnbind = {}] ELSE o.model,
     zone |-> IF "zone" \in o.controller._callOnClose
              THEN [o.zone EXCEPT !._callOnDispose = {}] ELSE o.zone,
     controller |-> [_model |-> FALSE, _zone |-> FALSE, _callOnClose |-> {},
                     _markersNavigationVisible |-> FALSE]]

\* MarkerController.getOrCreateModel
getOrCreateModel(o, markers) ==
    IF o.controller._model THEN o
    ELSE [model |-> newMarkerModel(markers),
          zone |-> newMarkerNavigationWidget,
          controller |-> [_model |-> TRUE, _zone |-> TRUE,
                          _callOnClose |-> {"model", "zone", "onDidChangeModel",
                                            "onCurrentMarkerChanged", "onMarkerChanged"},
                          _markersNavigationVisible |-> TRUE]]

\* MarkerModel.reveal up to the callback of withoutWatchingEditorPosition:
\* the model and the position of the handler
reveal(mm, handler) ==
    IF mm._nextIdx = -1
    THEN [model |-> mm, nav |-> [handler EXCEPT !.pc = "idle"]]
    ELSE IF mm._nextIdx + 1 \notin 1..Len(mm._markers)
    THEN [model |-> mm,
          nav |-> [handler EXCEPT !.pc = "idle", !.error = "reveal reads no marker"]]
    ELSE [model |-> [mm EXCEPT !._ignoreSelectionChange = TRUE],
          nav |-> [handler EXCEPT !.pc = "reveal"]]

(***************************************************************************)
(* The marker lists and cursor positions of the model.                     *)
(***************************************************************************)
Positions == [lineNumber : 1..MaxLine, column : {1, 2}]

Markers == [startLineNumber : 1..MaxLine, startColumn : {1}]

\* the markers of a set, by their start
RECURSIVE ascending(_)
ascending(markers) ==
    IF markers = {} THEN <<>>
    ELSE LET last == CHOOSE mk \in markers :
                        \A other \in markers : compareRangesUsingStarts(other, mk) <= 0
         IN  Append(ascending(markers \ {last}), last)

reversed(list) == [i \in 1..Len(list) |-> list[Len(list) + 1 - i]]

rotated(list) == IF list = <<>> THEN <<>> ELSE Append(Tail(list), Head(list))

\* the arrays the marker service returns: the markers of a set in three
\* orders, and two markers at one place
ServiceMarkerLists ==
    UNION {{ascending(set), reversed(ascending(set)), rotated(ascending(set))} :
              set \in {sub \in SUBSET Markers : Cardinality(sub) <= MaxMarkers}}
    \cup {<<mk, mk>> : mk \in Markers}

(***************************************************************************)
(* The state machine of the marker navigation.  A handler runs to its end  *)
(* in one step, except inside the callbacks of                             *)
(* withoutWatchingEditorPosition, where the editor delivers the cursor     *)
(* events of the callback.                                                 *)
(***************************************************************************)
MarkerInit ==
    /\ input = [lineContent |-> <<>>, tabSize |-> 1, spaceWidth |-> 7,
                stopRenderingLineAfter |-> -1, renderWhitespace |-> "none",
                renderHardSpace |-> FALSE, renderControlCharacters |-> FALSE,
                parts |-> <<>>]
    /\ s = Idle
    /\ position \in Positions
    /\ serviceMarkers \in ServiceMarkerLists
    /\ model = NoModel
    /\ zone = NoZone
    /\ controller = NewController
    /\ nav = NoHandler

\* MarkerNavigationAction.run: getOrCreateModel, next or previous with the
\* listeners of onCurrentMarkerChanged (showAtMarker of the widget up to its
\* callback, then the listener of the controller), and reveal when the
\* widget's callback is not entered
run ==
    /\ nav.pc = "idle"
    /\ \E fwd \in BOOLEAN :
        LET o == getOrCreateModel(Objects, serviceMarkers)
            mv == move(o.model, position, fwd)
            moved == [o EXCEPT !.model._nextIdx = mv._nextIdx]
            handler == [pc |-> "run", isNext |-> fwd, fired |-> mv.fired,
                        marker |-> mv.marker, error |-> "none"]
        IN  IF mv.fired = "marker" /\ "onCurrentMarkerChanged" \in moved.zone._callOnDispose
            THEN /\ model' = [moved.model EXCEPT !._ignoreSelectionChange = TRUE]
                 /\ zone' = moved.zone
                 /\ controller' = moved.controller
                 /\ nav' = [handler EXCEPT !.pc = "showAtMarker"]
            ELSE LET closed == IF mv.fired = "undefined"
                                  /\ "onCurrentMarkerChanged" \in moved.controller._callOnClose
                               THEN _cleanUp(moved) ELSE moved
                     r == reveal(closed.model, handler)
                 IN  /\ model' = r.model
                     /\ zone' = closed.zone
                     /\ controller' = closed.controller
                     /\ nav' = r.nav
    /\ UNCHANGED <<position, serviceMarkers>>
    /\ UNCHANGED rendererVars

\* the editor changes the cursor inside a callback of
\* withoutWatchingEditorPosition and delivers the event
CursorEventInCallback ==
    /\ nav.pc \in {"showAtMarker", "revealed"}
    /\ \E p \in Positions :
        /\ p # position
        /\ position' = p
    /\ model' = onDidChangeCursorPosition(model)
    /\ UNCHANGED <<serviceMarkers, zone, controller, nav>>
    /\ UNCHANGED rendererVars

\* the callback of showAtMarker ends, by a return or by an exception that
\* the emitter keeps or lets through; then the listener of the controller
\* and MarkerModel.reveal of run
ShowAtMarkerEnd ==
    /\ nav.pc = "showAtMarker"
    /\ \E outcome \in {"return", "throw caught", "throw"} :
        LET unwatched == [model EXCEPT !._ignoreSelectionChange = FALSE]
            r == IF outcome = "throw"
                 THEN [model |-> unwatched, nav |-> [nav EXCEPT !.pc = "idle"]]
                 ELSE reveal(unwatched, nav)
        IN  /\ model' = r.model
            /\ nav' = r.nav
    /\ UNCHANGED <<position, serviceMarkers, zone, controller>>
    /\ UNCHANGED rendererVars

\* the callback of reveal: editor.setPosition with the event it delivers
RevealSetPosition ==
    /\ nav.pc = "reveal"
    /\ position' = markerStart(model._markers[model._nextIdx + 1])
    /\ model' = IF position' # position THEN onDidChangeCursorPosition(model) ELSE model
    /\ nav' = [nav EXCEPT !.pc = "revealed"]
    /\ UNCHANGED <<serviceMarkers, zone, controller>>
    /\ UNCHANGED rendererVars

\* the callback of reveal ends, by a return or by an exception
RevealEnd ==
    /\ nav.pc \in {"reveal", "revealed"}
    /\ model' = [model EXCEPT !._ignoreSelectionChange = FALSE]
    /\ nav' = [nav EXCEPT !.pc = "idle"]
    /\ UNCHANGED <<position, serviceMarkers, zone, controller>>
    /\ UNCHANGED rendererVars

\* the user moves the cursor: the editor delivers onDidChangeCursorPosition
CursorPositionChanged ==
    /\ nav.pc = "idle"
    /\ \E p \in Positions :
        /\ p # position
        /\ position' = p
    /\ model' = onDidChangeCursorPosition(model)
    /\ UNCHANGED <<serviceMarkers, zone, controller, nav>>
    /\ UNCHANGED rendererVars

\* the marker service changes markers and fires onMarkerChanged:
\* MarkerController._onMarkerChanged while it is registered
MarkerChanged ==
    /\ nav.pc = "idle"
    /\ \E changesResource \in BOOLEAN :
        /\ IF changesResource
           THEN serviceMarkers' \in ServiceMarkerLists
           ELSE serviceMarkers' = serviceMarkers
        /\ IF "onMarkerChanged" \in controller._callOnClose /\ changesResource
           THEN IF controller._model
                THEN /\ model' = setMarkers(model, serviceMarkers')
                     /\ nav' = nav
                ELSE /\ model' = model
                     /\ nav' = [nav EXCEPT !.error = "_model is null"]
           ELSE UNCHANGED <<model, nav>>
    /\ UNCHANGED <<position, zone, controller>>
    /\ UNCHANGED rendererVars

\* the editor gets another text model: the listener getOrCreateModel gave to
\* editor.onDidChangeModel while it is registered
ModelChanged ==
    /\ nav.pc = "idle"
    /\ serviceMarkers' \in ServiceMarkerLists
    /\ LET closed == IF "onDidChangeModel" \in controller._callOnClose
                     THEN _cleanUp(Objects) ELSE Objects
       IN  /\ model' = closed.model
           /\ zone' = closed.zone
           /\ controller' = closed.controller
    /\ UNCHANGED <<position, nav>>
    /\ UNCHANGED rendererVars

\* MarkerController.closeMarkersNavigation
closeMarkersNavigation ==
    /\ nav.pc = "idle"
    /\ LET closed == _cleanUp(Objects)
       IN  /\ model' = closed.model
           /\ zone' = closed.zone
           /\ controller' = closed.controller
    /\ UNCHANGED <<position, serviceMarkers, nav>>
    /\ UNCHANGED rendererVars

MarkerNext ==
    \/ run
    \/ CursorEventInCallback
    \/ ShowAtMarkerEnd
    \/ RevealSetPosition
    \/ RevealEnd
    \/ CursorPositionChanged
    \/ MarkerChanged
    \/ ModelChanged
    \/ closeMarkersNavigation

MarkerSpec == MarkerInit /\ [][MarkerNext]_vars

(***************************************************************************)
(* Properties of the marker navigation.                                    *)
(***************************************************************************)
\* the model run works on: the one of the controller, or a new one
ModelOfRun == getOrCreateModel(Objects, serviceMarkers).model

\* a step of MarkerNavigationAction.run
RunStep ==
    /\ nav.pc = "idle"
    /\ serviceMarkers' = serviceMarkers
    /\ position' = position
    /\ run

\* the marker service changed the markers of the resource while the
\* controller listened: _onMarkerChanged called setMarkers
SetMarkersStep ==
    /\ nav.pc = "idle"
    /\ "onMarkerChanged" \in controller._callOnClose
    /\ serviceMarkers' # serviceMarkers
    /\ controller' = controller

C17_IndexValid ==
    /\ \/ model._nextIdx = -1
       \/ model._nextIdx \in 0..(Len(model._markers) - 1)
    /\ nav.error # "reveal reads no marker"
    /\ nav.fired = "marker" => nav.marker \in Markers

C17_Step ==
    /\ SetMarkersStep => model'._nextIdx = -1 /\ model'._markers = sortMarkers(serviceMarkers')
    /\ (RunStep /\ ~canNavigate(ModelOfRun)) =>
          /\ model'._nextIdx = ModelOfRun._nextIdx
          /\ nav'.fired = "undefined"
          /\ nav'.marker = NoMarker

\* C17: the index of a MarkerModel is -1 or an index of its marker array in
\* every state, and neither move nor reveal reads outside the array; setMarkers puts the sorted markers and the index -1; next and
\* previous on an empty array leave the index and fire onCurrentMarkerChanged
\* with no marker.
C17_IndexInRange ==
    /\ []C17_IndexValid
    /\ [](\A list \in ServiceMarkerLists : setMarkers(model, list)._nextIdx = -1)
    /\ [][C17_Step]_vars

\* the last marker of three is the current one after a navigation
C17_Witness ==
    /\ nav.pc = "idle"
    /\ Len(model._markers) = 3
    /\ model._nextIdx = 2
    /\ nav.fired = "marker"
    /\ nav.marker = model._markers[3]

\* a navigation on the model of the controller that has markers and a
\* current one
MoveFromIndex ==
    /\ controller._model
    /\ canNavigate(model)
    /\ model._nextIdx # -1
    /\ RunStep

C18_Step ==
    MoveFromIndex =>
        LET n == Len(model._markers) IN
        /\ model'._markers = model._markers
        /\ model'._nextIdx = (model._nextIdx + (IF nav'.isNext THEN 1 ELSE -1)) % n
        /\ nav'.fired = "marker"
        /\ nav'.marker = model._markers[model'._nextIdx + 1]

\* the model after next or previous
afterMove(mm, fwd) == [mm EXCEPT !._nextIdx = move(mm, position, fwd)._nextIdx]

\* the indexes k calls of next give, from the model mm
RECURSIVE Visits(_, _)
Visits(mm, k) ==
    IF k = 0 THEN <<>>
    ELSE <<afterMove(mm, TRUE)._nextIdx>> \o Visits(afterMove(mm, TRUE), k - 1)

C18_RoundTrips ==
    (canNavigate(model) /\ model._nextIdx # -1) =>
        LET n == Len(model._markers) IN
        /\ afterMove(afterMove(model, TRUE), FALSE)._nextIdx = model._nextIdx
        /\ afterMove(afterMove(model, FALSE), TRUE)._nextIdx = model._nextIdx
        /\ {Visits(model, n)[k] : k \in 1..n} = 0..(n - 1)
        /\ Visits(model, n)[n] = model._nextIdx

\* C18: with markers and a current index, next puts (index + 1) mod n and
\* previous (index - 1) mod n and each fires the marker at the new index;
\* next then previous comes back, and n calls of next visit each index once
\* and end on the first.
C18_Cycle ==
    /\ [][C18_Step]_vars
    /\ []C18_RoundTrips

\* next from the last of three markers, the cursor still at the last: the
\* first marker is fired
C18_Witness ==
    /\ nav.pc = "showAtMarker"
    /\ nav.isNext
    /\ Len(model._markers) = 3
    /\ model._markers[1] # model._markers[3]
    /\ position = markerStart(model._markers[3])
    /\ model._nextIdx = 0
    /\ nav.marker = model._markers[1]

\* the handler is inside a callback of withoutWatchingEditorPosition
InCallback == nav.pc \in {"showAtMarker", "reveal", "revealed"}

\* the editor delivers a cursor event to the listener of the model
CursorEvent ==
    /\ position' # position
    /\ "onDidChangeCursorPosition" \in model._toUnbind

C19_FlagOnlyInCallback ==
    model._ignoreSelectionChange <=> InCallback

C19_Step ==
    /\ (CursorEvent /\ ~InCallback) => model'._nextIdx = -1
    /\ (CursorEvent /\ InCallback) => model'._nextIdx = model._nextIdx
    /\ InCallback =>
          /\ model'._nextIdx = model._nextIdx
          /\ model'._markers = model._markers
    /\ (InCallback /\ nav'.pc = "idle") =>
          /\ ~model'._ignoreSelectionChange
          /\ model'._markers[model'._nextIdx + 1] = nav'.marker

\* C19: a cursor event puts the index -1 when it comes outside
\* withoutWatchingEditorPosition and leaves it when it comes inside a
\* callback; _ignoreSelectionChange is true inside the callbacks only, also
\* after an exception; from the move of a navigation to its end the index
\* stays the index of the marker fired, so the next navigation moves on from
\* it.
C19_WatchedCursor ==
    /\ []C19_FlagOnlyInCallback
    /\ [][C19_Step]_vars

\* the cursor moved away from the revealed marker inside the callback of
\* reveal and the index is kept
C19_Witness ==
    /\ nav.pc = "revealed"
    /\ model._nextIdx = 1
    /\ position # markerStart(model._markers[2])
    /\ model._ignoreSelectionChange

\* the listeners getOrCreateModel registers
ControllerListeners == {"onDidChangeModel", "onCurrentMarkerChanged", "onMarkerChanged"}

\* everything getOrCreateModel makes is alive
NavigationOpen ==
    /\ controller._model
    /\ controller._zone
    /\ controller._markersNavigationVisible
    /\ controller._callOnClose = {"model", "zone"} \cup ControllerListeners
    /\ model._toUnbind # {}
    /\ zone._callOnDispose # {}

\* everything getOrCreateModel makes is disposed
NavigationClosed ==
    /\ ~controller._model
    /\ ~controller._zone
    /\ ~controller._markersNavigationVisible
    /\ controller._callOnClose = {}
    /\ model._toUnbind = {}
    /\ zone._callOnDispose = {}

C20_AllOrNothing ==
    /\ NavigationOpen \/ NavigationClosed
    /\ nav.error # "_model is null"

C20_Step ==
    /\ (RunStep /\ ~canNavigate(ModelOfRun)) => NavigationClosed'
    /\ (RunStep /\ ~controller._model) =>
          /\ model'._markers = sortMarkers(serviceMarkers)
          /\ canNavigate(model') =>
                /\ NavigationOpen'
                /\ model'._nextIdx =
                      initIdx(newMarkerModel(serviceMarkers), position, nav'.isNext)
    /\ (nav.pc = "idle" /\ controller._model /\ ~controller'._model) => NavigationClosed'

\* C20: the controller has a model exactly when it has a widget, the key is
\* true and its listeners are registered, and then the model and the widget
\* listen too; a cleanup, also the one of a navigation without markers,
\* leaves nothing registered, _onMarkerChanged never finds _model null, and
\* a navigation without a model makes one from the markers of the service
\* with its index taken from the cursor.
C20_Lifecycle ==
    /\ []C20_AllOrNothing
    /\ [][C20_Step]_vars

\* a navigation found no marker and cleaned up, and the service has no
\* markers
C20_Witness ==
    /\ nav.pc = "idle"
    /\ nav.fired = "undefined"
    /\ serviceMarkers = <<>>
    /\ NavigationClosed
    /\ model._markers = <<>>

====
